---- MODULE Spec2Model ----
(***************************************************************************)
(* Ground detection of the lander arm (ow_lander/scripts/                  *)
(* ground_detection.py): the SlidingWindow buffer and the GroundDetector   *)
(* that is driven by detect() / reset() in its active, TF2 (pull-based)    *)
(* configuration.                                                          *)
(*                                                                         *)
(* Numbers.  Time is counted in units of 1e-4 s, so that the tolerance of  *)
(* np.isclose(delta_t, 0.0, atol=1.e-4) is exactly one unit.  Positions    *)
(* are integer vectors.  A velocity delta_d / delta_t is kept exactly, as  *)
(* the integer vector delta_d * (TimeScale / delta_t), i.e. in units of    *)
(* 1/TimeScale, and the mean of a window of n velocities is kept exactly   *)
(* as their sum, i.e. in units of 1/(n * TimeScale).  The cosine test is   *)
(* invariant under these positive scalings and is evaluated exactly on the *)
(* integers (real arithmetic instead of IEEE doubles).                     *)
(***************************************************************************)
EXTENDS Integers, Sequences, FiniteSets, TLC

\* ------------------------------------------------------------------ bounds
\* the clock is read at most MaxDt units after the last accepted sample
MaxDt == 2
\* the clock stops at MaxTime
MaxTime == 22
\* largest capacity of a stand-alone SlidingWindow
MaxSize == 3
\* longest sequence of appends to a stand-alone SlidingWindow
MaxAppends == 5
\* values appended to a stand-alone SlidingWindow are 0..MaxVal
MaxVal == 1

\* ------------------------------------------------------- program constants
SKIP_SAMPLES_COUNT == 5
ROLLING_AVERAGE_WINDOW == 5
\* DIRECTION_TOLERANCE = 0.95 = ToleranceNum / ToleranceDen
ToleranceNum == 19
ToleranceDen == 20
\* atol=1.e-4 of np.isclose, in time units
Atol == 1

\* ---------------------------------------------------------------- values
\* Python's None, for a position, a vector or a deque-less value
None == <<>>
\* Python's None for a time stamp
NoTime == -1

\* the positions a lookup can give: three points that are not on a line
Positions == {<<0, 0, 0>>, <<0, 0, 1>>, <<1, 0, 0>>}

\* the three tf2 exceptions caught by _tf_lookup_position
TfExceptions == {"LookupException", "ConnectivityException", "ExtrapolationException"}

\* what Buffer.lookup_transform can do: give a translation or raise
LookupOutcomes == Positions \cup {<<e>> : e \in TfExceptions}

RECURSIVE Gcd(_, _)
Gcd(a, b) == IF b = 0 THEN a ELSE Gcd(b, a % b)

RECURSIVE LcmUpTo(_)
LcmUpTo(n) == IF n <= 1 THEN 1 ELSE LET l == LcmUpTo(n - 1) IN (l * n) \div Gcd(l, n)

\* velocities are stored in units of 1/TimeScale
TimeScale == LcmUpTo(MaxDt)

Zero3 == <<0, 0, 0>>

VecAdd(a, b) == <<a[1] + b[1], a[2] + b[2], a[3] + b[3]>>

VecSub(a, b) == <<a[1] - b[1], a[2] - b[2], a[3] - b[3]>>

VecScale(a, k) == <<a[1] * k, a[2] * k, a[3] * k>>

Dot(a, b) == a[1] * b[1] + a[2] * b[2] + a[3] * b[3]

\* ---------------------------------------------------------- SlidingWindow
\* a window is [que, size]; que[1] is the left end of the deque (newest)

SlidingWindow(size) == [que |-> <<>>, size |-> size]

AppendGrows(w, val) ==
  LET q == IF Len(w.que) > w.size THEN SubSeq(w.que, 1, Len(w.que) - 1) ELSE w.que
  IN  [w EXCEPT !.que = <<val>> \o q]

AppendEvictsNewest(w, val) ==
  LET q == IF Len(w.que) >= w.size THEN Tail(w.que) ELSE w.que
  IN  [w EXCEPT !.que = <<val>> \o q]

\* SlidingWindow.append: pop() drops the right end, appendleft() adds left
SWAppend(w, val) ==
  LET q == IF Len(w.que) >= w.size THEN SubSeq(w.que, 1, Len(w.que) - 1) ELSE w.que
  IN  [w EXCEPT !.que = <<val>> \o q]

\* SlidingWindow.valid
Valid(w) == Len(w.que) = w.size

RECURSIVE SumVec(_)
SumVec(q) == IF q = <<>> THEN Zero3 ELSE VecAdd(Head(q), SumVec(Tail(q)))

\* SlidingWindow.value with method np.mean(a, axis=0): the mean of the
\* stored velocities, in units of 1/(Len(que) * TimeScale)
Value(w) == SumVec(w.que)

\* --------------------------------------------------------- detector state
VARIABLES
  last_position,       \* self._last_position : None or a position
  last_time,           \* self._last_time : NoTime or a clock reading
  ground_detected,     \* self._ground_detected
  samples_skipped,     \* self._samples_skipped
  trending_velocity,   \* self._trending_velocity : a SlidingWindow
  reference_velocity,  \* self._reference_velocity : None or a vector
  now,                 \* rospy.get_time(), in time units
  op,                  \* the operation that was called last
  ret,                 \* what the last operation returned or raised
  lookup,              \* history: what the lookup of the last detect() call
                       \* gave: "failed", a position "accepted", or a
                       \* position "discarded" for its near-zero time delta
  accepted,            \* history: last position a lookup gave in this cycle
                       \* as the first or with a time delta beyond tolerance
  ncalls,              \* history: detect() calls counted so far
  config,              \* the class attributes ROLLING_AVERAGE_WINDOW (window)
                       \* and SKIP_SAMPLES_COUNT (skip)
  check_ground_method, \* self._check_ground_method
  pending,             \* _handle_link_states: the value _check_condition
                       \* returned and line 140 has not yet assigned
  sw,                  \* a stand-alone SlidingWindow
  hist                 \* history: the values appended to sw, oldest first

detector == <<last_position, last_time, ground_detected, samples_skipped,
              trending_velocity, reference_velocity>>

vars == <<last_position, last_time, ground_detected, samples_skipped,
          trending_velocity, reference_velocity, now, op, ret, lookup,
          accepted, ncalls, config, check_ground_method, pending, sw, hist>>

\* what no action of detect() or reset() assigns
setup == <<config, check_ground_method>>

\* the detector object as a value
Self ==
  [last_position |-> last_position, last_time |-> last_time,
   ground_detected |-> ground_detected, samples_skipped |-> samples_skipped,
   trending_velocity |-> trending_velocity,
   reference_velocity |-> reference_velocity]

\* the class attributes as the source sets them
DefaultConfig == [window |-> ROLLING_AVERAGE_WINDOW, skip |-> SKIP_SAMPLES_COUNT]

\* in SpecCycle, detect() is called at most CallsCap times
CallsCap == ROLLING_AVERAGE_WINDOW + SKIP_SAMPLES_COUNT

resetKeepsSkipped(s) ==
  [last_position |-> None, last_time |-> NoTime, ground_detected |-> FALSE,
   samples_skipped |-> s.samples_skipped,
   trending_velocity |-> SlidingWindow(config.window),
   reference_velocity |-> None]

\* GroundDetector.reset
reset(s) ==
  [last_position |-> None, last_time |-> NoTime, ground_detected |-> FALSE,
   samples_skipped |-> 0,
   trending_velocity |-> SlidingWindow(config.window),
   reference_velocity |-> None]

IsCloseStrict(delta_t) == (IF delta_t < 0 THEN -delta_t ELSE delta_t) < Atol

\* np.isclose(delta_t, 0.0, atol=1.e-4): |delta_t - 0| <= atol + rtol * |0|
IsClose(delta_t) == (IF delta_t < 0 THEN -delta_t ELSE delta_t) <= Atol

\* velocity_z = delta_d / delta_t, in units of 1/TimeScale
Velocity(delta_d, delta_t) == VecScale(delta_d, TimeScale \div delta_t)

\* the trending vector divided by the norm of the reference, not by its own
BelowToleranceOneNorm(r, t) ==
  LET d  == Dot(r, t)
      rr == Dot(r, r)
  IN  IF rr = 0 THEN FALSE
      ELSE d * ToleranceDen < ToleranceNum * rr

\* the magnitude of the similarity compared, its sign dropped
BelowToleranceUnsigned(r, t) ==
  LET d  == Dot(r, t)
      rr == Dot(r, r)
      tt == Dot(t, t)
  IN  IF rr = 0 \/ tt = 0 THEN FALSE
      ELSE d * d * ToleranceDen * ToleranceDen < ToleranceNum * ToleranceNum * rr * tt

\* r_x_t < DIRECTION_TOLERANCE for r, t the two vectors divided by their
\* norms.  A zero vector divides to nan and every comparison with nan is
\* false; otherwise compare dot(r, t) with 0.95 * |r| * |t|.
BelowTolerance(r, t) ==
  LET d  == Dot(r, t)
      rr == Dot(r, r)
      tt == Dot(t, t)
  IN  IF rr = 0 \/ tt = 0 THEN FALSE
      ELSE IF d <= 0 THEN TRUE
      ELSE d * d * ToleranceDen * ToleranceDen < ToleranceNum * ToleranceNum * rr * tt

PyBool(b) == IF b THEN "True" ELSE "False"

RECURSIVE ISqrtFrom(_, _)
ISqrtFrom(n, k) == IF (k + 1) * (k + 1) > n THEN k ELSE ISqrtFrom(n, k + 1)

\* r /= np.linalg.norm(r) done on the stored vector itself: a unit vector,
\* which in units of 1/(n * TimeScale) has length n * TimeScale (rounded)
NormalizedInPlace(v, n) ==
  LET len == ISqrtFrom(Dot(v, v), 0)
  IN  IF len = 0 THEN v
      ELSE <<(v[1] * n * TimeScale) \div len, (v[2] * n * TimeScale) \div len,
             (v[3] * n * TimeScale) \div len>>

compareInPlace(s) ==
  [self |-> [s EXCEPT !.reference_velocity =
                        NormalizedInPlace(@, s.trending_velocity.size)],
   ret  |-> PyBool(BelowTolerance(s.reference_velocity, Value(s.trending_velocity)))]

\* the reference compared with the newest velocity, not with the window mean
compareNewest(s) ==
  [self |-> s,
   ret  |-> PyBool(BelowTolerance(s.reference_velocity, Head(s.trending_velocity.que)))]

\* _check_condition, lines 116-122: the comparison works on deep copies
compare(s) ==
  [self |-> s,
   ret  |-> PyBool(BelowTolerance(s.reference_velocity, Value(s.trending_velocity)))]

baselineNoSkip(s) ==
  IF Valid(s.trending_velocity)
  THEN [self |-> [s EXCEPT !.samples_skipped = @ + 1,
                           !.reference_velocity = Value(s.trending_velocity)],
        ret |-> "False"]
  ELSE [self |-> s, ret |-> "False"]

\* line 112 with < for <=: the reference is set one sample early
baselineSkipsOneLess(s) ==
  IF Valid(s.trending_velocity)
  THEN LET s1 == [s EXCEPT !.samples_skipped = @ + 1]
       IN  IF s1.samples_skipped < config.skip
           THEN [self |-> s1, ret |-> "False"]
           ELSE [self |-> [s1 EXCEPT !.reference_velocity = Value(s1.trending_velocity)],
                 ret |-> "False"]
  ELSE [self |-> s, ret |-> "False"]

\* _samples_skipped incremented on every sample, the window full or not
baselineCountsEarly(s) ==
  LET s1 == [s EXCEPT !.samples_skipped = @ + 1]
  IN  IF ~Valid(s.trending_velocity) \/ s1.samples_skipped <= config.skip
      THEN [self |-> s1, ret |-> "False"]
      ELSE [self |-> [s1 EXCEPT !.reference_velocity = Value(s1.trending_velocity)],
            ret |-> "False"]

\* _check_condition, lines 109-115: no reference velocity yet
baseline(s) ==
  IF Valid(s.trending_velocity)
  THEN LET s1 == [s EXCEPT !.samples_skipped = @ + 1]
       IN  IF s1.samples_skipped <= config.skip
           THEN [self |-> s1, ret |-> "False"]
           ELSE [self |-> [s1 EXCEPT !.reference_velocity = Value(s1.trending_velocity)],
                 ret |-> "False"]
  ELSE [self |-> s, ret |-> "False"]

checkConditionLateGuard(s, new_position, current_time) ==
  IF new_position = None
  THEN [self |-> s, ret |-> "AttributeError"]
  ELSE IF s.last_position = None
  THEN [self |-> [s EXCEPT !.last_position = new_position,
                           !.last_time = current_time],
        ret |-> "False"]
  ELSE LET delta_d == VecSub(new_position, s.last_position)
           delta_t == current_time - s.last_time
           s1 == [s EXCEPT !.last_position = new_position]
       IN  IF IsClose(delta_t)
           THEN [self |-> s1, ret |-> "False"]
           ELSE LET s2 == [s1 EXCEPT
                             !.last_time = current_time,
                             !.trending_velocity =
                                SWAppend(@, Velocity(delta_d, delta_t))]
                IN  IF s2.reference_velocity = None
                    THEN baseline(s2)
                    ELSE compare(s2)

\* GroundDetector._check_condition; new_position.x on None raises
\* AttributeError before anything is assigned
_check_condition(s, new_position, current_time) ==
  IF new_position = None
  THEN [self |-> s, ret |-> "AttributeError"]
  ELSE IF s.last_position = None
  THEN [self |-> [s EXCEPT !.last_position = new_position,
                           !.last_time = current_time],
        ret |-> "False"]
  ELSE LET delta_d == VecSub(new_position, s.last_position)
           delta_t == current_time - s.last_time
       IN  IF IsClose(delta_t)
           THEN [self |-> s, ret |-> "False"]
           ELSE LET s2 == [s EXCEPT
                             !.last_position = new_position,
                             !.last_time = current_time,
                             !.trending_velocity =
                                SWAppend(@, Velocity(delta_d, delta_t))]
                IN  IF s2.reference_velocity = None
                    THEN baseline(s2)
                    ELSE compare(s2)

tfLookupDefault(outcome) == IF Len(outcome) = 1 THEN Zero3 ELSE outcome

\* GroundDetector._tf_lookup_position: the translation, or None when
\* lookup_transform raised one of the three caught exceptions
_tf_lookup_position(outcome) == IF Len(outcome) = 1 THEN None ELSE outcome

\* GroundDetector._tf_2_method
_tf_2_method(s, outcome, current_time) ==
  _check_condition(s, _tf_lookup_position(outcome), current_time)

\* GroundDetector.ground_position with the query method chosen by __init__
\* for _tf_2_method, lambda: self._last_position; indexing None raises
ground_position(s) ==
  IF s.last_position = None
  THEN [raised |-> "TypeError", point |-> None]
  ELSE [raised |-> "", point |-> s.last_position]

\* ---------------------------------------------------------------- actions
\* GroundDetector.__init__: reset() and the TF2 method
\* GroundDetector.__init__ under class attributes c, with line 71 choosing
\* `method` as self._check_ground_method
Construct(c, method) ==
  /\ config = c
  /\ check_ground_method = method
  /\ last_position = None
  /\ last_time = NoTime
  /\ ground_detected = FALSE
  /\ samples_skipped = 0
  /\ trending_velocity = SlidingWindow(c.window)
  /\ reference_velocity = None
  /\ now = 0
  /\ op = "new"
  /\ ret = "None"
  /\ lookup = "none"
  /\ accepted = None
  /\ ncalls = 0
  /\ pending = "none"
  /\ sw = SlidingWindow(1)
  /\ hist = <<>>

\* the detector as the source constructs it: line 71 selects _tf_2_method
Init == Construct(DefaultConfig, "_tf_2_method")

SetSelf(s) ==
  /\ last_position' = s.last_position
  /\ last_time' = s.last_time
  /\ ground_detected' = s.ground_detected
  /\ samples_skipped' = s.samples_skipped
  /\ trending_velocity' = s.trending_velocity
  /\ reference_velocity' = s.reference_velocity

\* GroundDetector.detect, one call, with what lookup_transform does in it
DetectCall(outcome) ==
  \E r \in {_tf_2_method(Self, outcome, now)} :
    LET ok == Len(outcome) = 3
        near == /\ last_position # None
                /\ now - last_time <= Atol
                /\ last_time - now <= Atol
    IN  /\ check_ground_method = "_tf_2_method"
        /\ SetSelf(r.self)
        /\ op' = "detect"
        /\ ret' = r.ret
        /\ lookup' = IF ~ok THEN "failed" ELSE IF near THEN "discarded" ELSE "accepted"
        /\ accepted' = IF ok /\ ~near THEN outcome ELSE accepted
        /\ UNCHANGED <<now, setup, pending, sw, hist>>

Detect(outcome) == DetectCall(outcome) /\ UNCHANGED ncalls

DetectAny == \E outcome \in LookupOutcomes : Detect(outcome)

\* GroundDetector.reset, called by the owner of the detector
Reset ==
  /\ SetSelf(reset(Self))
  /\ op' = "reset"
  /\ ret' = "None"
  /\ lookup' = "none"
  /\ accepted' = None
  /\ ncalls' = 0
  /\ UNCHANGED <<now, setup, pending, sw, hist>>

\* the clock advances by one unit; the time before the first sample of a
\* cycle is not read by the detector
Tick ==
  /\ last_time # NoTime
  /\ now < MaxTime
  /\ now - last_time < MaxDt
  /\ now' = now + 1
  /\ UNCHANGED <<detector, op, ret, lookup, accepted, ncalls, setup, pending, sw, hist>>

Next == DetectAny \/ Reset \/ Tick

Spec == Init /\ [][Next]_vars

\* ------------------------------------------------ one cycle, calls counted
\* detect() as above, and the call is counted
DetectCounted ==
  \E outcome \in LookupOutcomes :
    /\ ncalls < CallsCap
    /\ DetectCall(outcome)
    /\ ncalls' = ncalls + 1

NextCycle == DetectCounted \/ Tick

SpecCycle == Init /\ [][NextCycle]_vars

\* ------------------------------------------------- a sampled arm motion
\* the detector polled at a fixed rate while the scoop tip moves: every
\* lookup succeeds and every sample is accepted, so ncalls is the number of
\* the accepted sample.  The position looked up is the last one displaced
\* by a step; the first sample of a cycle is at the origin.
Steps == {<<0, 0, -1>>, <<0, 0, 0>>, <<0, 0, 1>>, <<0, 0, 3>>, <<1, 0, 0>>}

\* the class attributes overridden to window 3, skip 0
ExampleConfig == [window |-> 3, skip |-> 0]

Configs == {DefaultConfig, ExampleConfig}

\* samples of one cycle: the baseline, then the window turned over once
DescentCap(c) == 1 + c.skip + 2 * c.window

SamplePeriod == Atol + 1

DescentSample(step) ==
  /\ ncalls < DescentCap(config)
  /\ last_position = None \/ now - last_time = SamplePeriod
  /\ DetectCall(IF last_position = None THEN Zero3
                ELSE VecAdd(last_position, step))
  /\ ncalls' = ncalls + 1

DescentAny == \E step \in Steps : DescentSample(step)

InitDescent == \E c \in Configs : Construct(c, "_tf_2_method")

NextDescent == DescentAny \/ Tick

SpecDescent == InitDescent /\ [][NextDescent]_vars

\* ------------------------------------------------ the link-states handler
\* detect() with _gazebo_link_states_method selected at line 71: the
\* subscriber of line 74 calls _handle_link_states on its own thread, so
\* the handler's statements interleave with the caller's detect() and
\* reset().  Line 140 is two steps: the call of _check_condition, then the
\* assignment of its result to self._ground_detected.
ScoopTip == "lander::l_scoop_tip"

LinkNames == {ScoopTip, "lander::base_link"}

PushPositions == {<<0, 0, 0>>, <<0, 0, 1>>}

\* a LinkStates message: name[i] and pose[i].position, index by index
Link(name, position) == [name |-> name, position |-> position]

LinkStates ==
  {<<>>} \cup
  {<<Link(n, p)>> : n \in LinkNames, p \in PushPositions} \cup
  {<<Link("lander::base_link", Zero3), Link(ScoopTip, p)>> : p \in PushPositions}

\* data.name.index(name), counted from 1; 0 stands for ValueError
RECURSIVE Index(_, _)
Index(data, name) ==
  IF data = <<>> THEN 0
  ELSE IF Head(data).name = name THEN 1
  ELSE LET i == Index(Tail(data), name) IN IF i = 0 THEN 0 ELSE i + 1

handleIgnoresLatch(s, data, current_time) ==
  LET idx == Index(data, ScoopTip)
  IN  IF idx = 0 THEN [self |-> s, ret |-> "none"]
      ELSE _check_condition(s, data[idx].position, current_time)

\* GroundDetector._handle_link_states up to the call at line 140: the
\* detector after it and the value waiting to be assigned, "none" when the
\* handler has returned early
_handle_link_states(s, data, current_time) ==
  LET idx == Index(data, ScoopTip)
  IN  IF s.ground_detected THEN [self |-> s, ret |-> "none"]
      ELSE IF idx = 0 THEN [self |-> s, ret |-> "none"]
      ELSE _check_condition(s, data[idx].position, current_time)

\* GroundDetector._gazebo_link_states_method
_gazebo_link_states_method(s) == PyBool(s.ground_detected)

InitPush == Construct(DefaultConfig, "_gazebo_link_states_method")

\* a message arrives and the handler runs up to the call at line 140
HandleLinkStates(data) ==
  \E r \in {_handle_link_states(Self, data, now)} :
    LET idx  == Index(data, ScoopTip)
        near == /\ last_position # None
                /\ now - last_time <= Atol
                /\ last_time - now <= Atol
    IN  /\ check_ground_method = "_gazebo_link_states_method"
        /\ pending = "none"
        /\ SetSelf(r.self)
        /\ pending' = r.ret
        /\ op' = "handle"
        /\ lookup' = IF idx = 0 THEN "absent"
                     ELSE IF ground_detected THEN "ignored"
                     ELSE IF near THEN "discarded" ELSE "accepted"
        /\ UNCHANGED <<now, ret, accepted, ncalls, setup, sw, hist>>

HandleAny == \E data \in LinkStates : HandleLinkStates(data)

\* line 140, the assignment: self._ground_detected = <the value returned>
HandleAssign ==
  /\ pending # "none"
  /\ ground_detected' = (pending = "True")
  /\ pending' = "none"
  /\ op' = "assign"
  /\ UNCHANGED <<last_position, last_time, samples_skipped, trending_velocity,
                 reference_velocity, now, ret, lookup, accepted, ncalls, setup,
                 sw, hist>>

\* detect() in this mode returns the flag
DetectPush ==
  /\ check_ground_method = "_gazebo_link_states_method"
  /\ op' = "detect"
  /\ ret' = _gazebo_link_states_method(Self)
  /\ UNCHANGED <<detector, now, lookup, accepted, ncalls, setup, pending, sw, hist>>

NextPush == HandleAny \/ HandleAssign \/ DetectPush \/ Reset \/ Tick

SpecPush == InitPush /\ [][NextPush]_vars

\* ------------------------------------------- the stand-alone SlidingWindow
InitSW ==
  /\ last_position = None
  /\ last_time = NoTime
  /\ ground_detected = FALSE
  /\ samples_skipped = 0
  /\ trending_velocity = SlidingWindow(ROLLING_AVERAGE_WINDOW)
  /\ reference_velocity = None
  /\ now = 0
  /\ op = "new"
  /\ ret = "None"
  /\ lookup = "none"
  /\ accepted = None
  /\ ncalls = 0
  /\ config = DefaultConfig
  /\ check_ground_method = "_tf_2_method"
  /\ pending = "none"
  /\ sw \in {SlidingWindow(n) : n \in 1..MaxSize}
  /\ hist = <<>>

\* SlidingWindow.append on the stand-alone window
AppendSW ==
  \E val \in 0..MaxVal :
    /\ Len(hist) < MaxAppends
    /\ sw' = SWAppend(sw, val)
    /\ hist' = Append(hist, val)
    /\ op' = "append"
    /\ UNCHANGED <<detector, now, ret, lookup, accepted, ncalls, setup, pending>>

NextSW == AppendSW

SpecSW == InitSW /\ [][NextSW]_vars

\* ----------------------------------------------------------------- claims
Min(a, b) == IF a < b THEN a ELSE b

RECURSIVE Reverse(_)
Reverse(q) == IF q = <<>> THEN <<>> ELSE Append(Reverse(Tail(q)), Head(q))

\* the last k elements of q
LastK(q, k) == SubSeq(q, Len(q) - k + 1, Len(q))

Returned(r) == [raised |-> "", point |-> r]

\* a step of detect(): reset() sets op otherwise and the clock changes now
DetectStep == op' = "detect" /\ now' = now

\* C1: once a detect() call has returned true, the next detect() call whose
\* lookup gives a position returns true as well, until reset() is called
\* (ret is "None" after reset()).
C1_DetectionIsLatched ==
  [][(ret = "True" /\ DetectStep /\ lookup' # "failed") => ret' = "True"]_vars

\* C2: every detect() call returns a boolean, whatever the lookup does.
C2_DetectReturnsBoolean ==
  op = "detect" => ret \in {"True", "False"}

\* C3: a detect() call whose lookup raises one of the three tf2 exceptions
\* leaves last position, last time, window, skip counter, reference velocity
\* and detection flag as they were.
C3_FailedLookupIsNoSample ==
  [][(DetectStep /\ lookup' = "failed") => UNCHANGED detector]_vars

\* a failed lookup has been handled with a position recorded and a
\* velocity in the window
C3_Witness ==
  /\ op = "detect"
  /\ lookup = "failed"
  /\ last_position # None
  /\ Len(trending_velocity.que) > 0

\* C4: with a prior position recorded, a sample whose time delta to the last
\* accepted sample is at most the tolerance returns not-detected and changes
\* no field of the detector.
C4_NearZeroDeltaIsDiscarded ==
  [][(/\ DetectStep
      /\ lookup' \in {"accepted", "discarded"}
      /\ last_position # None
      /\ now - last_time <= Atol
      /\ last_time - now <= Atol)
     => (ret' = "False" /\ UNCHANGED detector)]_vars

\* a sample at exactly the tolerance has been discarded while the window
\* was filling
C4_Witness ==
  /\ op = "detect"
  /\ lookup = "discarded"
  /\ ret = "False"
  /\ now - last_time = Atol
  /\ Len(trending_velocity.que) > 0

\* C5: from a fresh detector, every one of the first N + 5 detect() calls
\* (N = 5) whose lookup gives a position returns false.
C5_WarmUp ==
  (/\ op = "detect"
   /\ ncalls <= ROLLING_AVERAGE_WINDOW + SKIP_SAMPLES_COUNT
   /\ ret # "AttributeError")
  => ret = "False"

\* the tenth call returned false after ten samples at increasing times, each
\* of them accepted
C5_Witness ==
  /\ ncalls = ROLLING_AVERAGE_WINDOW + SKIP_SAMPLES_COUNT
  /\ ret = "False"
  /\ Valid(trending_velocity)
  /\ samples_skipped = SKIP_SAMPLES_COUNT
  /\ last_time = now

\* C6: the stored length never exceeds the capacity, valid is true exactly
\* when the length equals the capacity, and valid is true whenever at least
\* capacity values have been appended.
C6_WindowBounded ==
  /\ Len(sw.que) <= sw.size
  /\ Valid(sw) <=> (Len(sw.que) = sw.size)
  /\ Len(hist) >= sw.size => Valid(sw)

\* more values than the capacity have been appended
C6_Witness ==
  /\ Len(hist) > sw.size
  /\ Valid(sw)
  /\ sw.size > 1

\* C7: read from the end that pop() takes from, the buffer is the
\* min(capacity, number appended) most recently appended values in arrival
\* order.
C7_WindowIsFifo ==
  Reverse(sw.que) = LastK(hist, Min(sw.size, Len(hist)))

\* an append at capacity has evicted a value that differs from the newest
C7_Witness ==
  /\ Len(hist) > sw.size
  /\ sw.size > 1
  /\ hist[Len(hist) - sw.size] # hist[Len(hist)]
  /\ hist[1] # hist[2]

\* C8: after reset() the detector is in the state the constructor leaves:
\* no last position or time, an empty window of the configured capacity, no
\* reference velocity, detection flag false, skip counter 0.
C8_ResetRestoresInitialState ==
  op = "reset" =>
    /\ last_position = None
    /\ last_time = NoTime
    /\ trending_velocity = [que |-> <<>>, size |-> ROLLING_AVERAGE_WINDOW]
    /\ reference_velocity = None
    /\ ground_detected = FALSE
    /\ samples_skipped = 0

\* reset() has been called after a cycle that ran to the end of the clock
C8_Witness ==
  /\ op = "reset"
  /\ now = MaxTime

\* C9: once the reference velocity is set, a step either leaves it as it is
\* or is reset() clearing it; and an accepted sample that is compared with it
\* leaves the window as the old window with the new velocity appended.
C9_ReferenceSetOnce ==
  [][reference_velocity # None =>
       /\ \/ reference_velocity' = reference_velocity
          \/ op' = "reset" /\ reference_velocity' = None
       /\ (DetectStep /\ lookup' = "accepted") =>
            trending_velocity' =
              SWAppend(trending_velocity,
                       Velocity(VecSub(accepted', last_position),
                                now - last_time))]_vars

\* a sample has been compared with the reference velocity
C9_Witness ==
  /\ reference_velocity # None
  /\ op = "detect"
  /\ lookup = "accepted"
  /\ ret = "True"

\* C10 as stated: after a lookup that gave a position, ground_position
\* returns that position.
C10_GroundPositionIsLastLookup ==
  [][\A p \in Positions : Detect(p) => ground_position(Self)' = Returned(p)]_vars

\* C10 as amended: ground_position returns the position of the most recent
\* successful lookup of the cycle whose sample was accepted, i.e. was the
\* first of the cycle or came with a time delta beyond the tolerance.
C10_GroundPositionIsLastAccepted ==
  accepted # None => ground_position(Self) = Returned(accepted)

\* the most recent lookup gave a position that the guard left out, after
\* velocities had been accepted
C10_Witness ==
  /\ op = "detect"
  /\ accepted # None
  /\ lookup = "discarded"
  /\ Len(trending_velocity.que) > 1

\* -------------------------------------------- direction of the velocities
Cross(a, b) ==
  <<a[2] * b[3] - a[3] * b[2], a[3] * b[1] - a[1] * b[3], a[1] * b[2] - a[2] * b[1]>>

\* v = k * r for some k > 0
PositiveMultiple(v, r) == Cross(v, r) = Zero3 /\ Dot(v, r) > 0

Orthogonal(v, r) == Dot(v, r) = 0 /\ v # Zero3 /\ r # Zero3

\* accepted samples of the cycle that came after the one setting the baseline
SinceBaseline == ncalls - (1 + config.window + config.skip)

\* the last call was detect() on an accepted sample and ran lines 116-122
Compared ==
  /\ op = "detect"
  /\ lookup = "accepted"
  /\ last_time = now
  /\ reference_velocity # None
  /\ SinceBaseline > 0

\* C11 as stated: with the baseline established, detect() returns false on
\* an accepted sample when every velocity accepted since the baseline is a
\* positive multiple of the baseline (stated for the shipped configuration).
C11_SameDirectionNeverDetects ==
  (/\ config = DefaultConfig
   /\ Compared
   /\ \A i \in 1..Min(SinceBaseline, Len(trending_velocity.que)) :
        PositiveMultiple(trending_velocity.que[i], reference_velocity))
  => ret = "False"

\* C11 as amended: with the baseline established, detect() returns false on
\* an accepted sample when every velocity then in the window is a positive
\* multiple of the baseline, the velocities accepted before the baseline
\* that the window still holds included.
C11_AlignedWindowNeverDetects ==
  (/\ Compared
   /\ \A i \in 1..Len(trending_velocity.que) :
        PositiveMultiple(trending_velocity.que[i], reference_velocity))
  => ret = "False"

\* in the shipped configuration a compared sample found the whole window
\* aligned with the baseline, with velocities of different magnitudes
C11_Witness ==
  /\ config = DefaultConfig
  /\ Compared
  /\ \A i \in 1..Len(trending_velocity.que) :
       PositiveMultiple(trending_velocity.que[i], reference_velocity)
  /\ trending_velocity.que[1] # trending_velocity.que[2]
  /\ Value(trending_velocity) # reference_velocity
  /\ ret = "False"

\* the sum of the velocities of q that are positive multiples of r
AlignedSum(q, r) == SumVec(SelectSeq(q, LAMBDA v : PositiveMultiple(v, r)))

\* the sum of the velocities of q that are orthogonal to r
OrthogonalSum(q, r) == SumVec(SelectSeq(q, LAMBDA v : Orthogonal(v, r)))

\* the velocity the last append pushed out, when that append was the first
\* after the baseline: the baseline is the sum of the window it was set from
Evicted == VecSub(reference_velocity, SumVec(Tail(trending_velocity.que)))

\* C12 as stated: the window held only velocities in the direction of the
\* baseline and the sample accepted now has a velocity orthogonal to it, the
\* first such in the window: this detect() call returns true (stated for
\* the shipped configuration).
C12_FirstOrthogonalDetects ==
  (/\ config = DefaultConfig
   /\ Compared
   /\ SinceBaseline = 1
   /\ PositiveMultiple(Evicted, reference_velocity)
   /\ \A i \in 2..Len(trending_velocity.que) :
        PositiveMultiple(trending_velocity.que[i], reference_velocity)
   /\ Orthogonal(trending_velocity.que[1], reference_velocity))
  => ret = "True"

\* C12 as amended: when the window holds velocities in the direction of the
\* baseline, with sum A, and velocities orthogonal to it, with sum B, the
\* detect() call returns true exactly when 0.95^2 * |B|^2 exceeds
\* (1 - 0.95^2) * |A|^2, i.e. when the mean's cosine with the baseline is
\* below 0.95; with only orthogonal velocities of non-zero sum it does.
C12_OrthogonalDetectsByMagnitude ==
  LET q == trending_velocity.que
      A == AlignedSum(q, reference_velocity)
      B == OrthogonalSum(q, reference_velocity)
  IN  (/\ Compared
       /\ \A i \in 1..Len(q) : \/ PositiveMultiple(q[i], reference_velocity)
                               \/ Orthogonal(q[i], reference_velocity)
       /\ \E i \in 1..Len(q) : Orthogonal(q[i], reference_velocity))
      => (ret = "True" <=>
            (ToleranceDen * ToleranceDen - ToleranceNum * ToleranceNum) * Dot(A, A)
              < ToleranceNum * ToleranceNum * Dot(B, B))

\* in the shipped configuration the first orthogonal velocity entered a
\* window of aligned velocities and was large enough to be detected
C12_Witness ==
  /\ config = DefaultConfig
  /\ Compared
  /\ SinceBaseline = 1
  /\ PositiveMultiple(Evicted, reference_velocity)
  /\ \A i \in 2..Len(trending_velocity.que) :
       PositiveMultiple(trending_velocity.que[i], reference_velocity)
  /\ Orthogonal(trending_velocity.que[1], reference_velocity)
  /\ ret = "True"

\* C13: with a reference velocity established, a detect() call on an
\* accepted sample that leaves the window with a mean of zero magnitude
\* reports detection (no division by zero fails the check).
C13_ZeroMeanDetects ==
  (Compared /\ Value(trending_velocity) = Zero3) => ret = "True"

\* a step of _handle_link_states up to its return or its call at line 140
HandleStep == op' = "handle" /\ now' = now

\* C14: a run of the link-states handler that finds the detection flag set,
\* or the scoop tip absent from the message, changes no detector state and
\* does not run the check (no value is left to assign).
C14_HandlerIgnoresLatchedOrAbsent ==
  [][(HandleStep /\ (ground_detected \/ lookup' = "absent"))
     => (UNCHANGED detector /\ pending' = "none")]_vars

\* the handler has run on a message naming the scoop tip with the flag set,
\* in a cycle that holds a reference velocity and a full window
C14_Witness ==
  /\ op = "handle"
  /\ lookup = "ignored"
  /\ ground_detected
  /\ reference_velocity # None
  /\ pending = "none"

UnitDescent == Velocity(<<0, 0, 1>>, SamplePeriod)

\* C15: with every sample accepted, so that ncalls numbers the accepted
\* samples of the cycle, the reference velocity is set exactly from sample
\* 1 + N + S on; the call of that sample sets it to the mean of the window,
\* which is the mean of the velocity of this sample and the N - 1 before it,
\* and returns false; with N = 3, S = 0 and positions (0,0,0), (0,0,1),
\* (0,0,2), (0,0,3) the mean is one unit of z per sample.
C15_BaselineTimingAndValue ==
  [][LET N == config.window
         S == config.skip
     IN  /\ (reference_velocity' # None) <=> (ncalls' >= 1 + N + S)
         /\ (DetectStep /\ ncalls' = 1 + N + S)
            => /\ reference_velocity = None
               /\ reference_velocity' =
                    VecAdd(Velocity(VecSub(last_position', last_position),
                                    now - last_time),
                           SumVec(SubSeq(trending_velocity.que, 1, N - 1)))
               /\ reference_velocity' = Value(trending_velocity')
               /\ Valid(trending_velocity')
               /\ ret' = "False"
         /\ (/\ DetectStep
             /\ config = ExampleConfig
             /\ ncalls' = 1 + N + S
             /\ trending_velocity.que = <<UnitDescent, UnitDescent>>
             /\ last_position' = VecAdd(last_position, <<0, 0, 1>>))
            => reference_velocity' = VecScale(UnitDescent, N)]_vars

\* in the shipped configuration sample 11 has set a non-zero reference
\* velocity, while the tip had moved during the skipped samples as well
C15_Witness ==
  /\ config = DefaultConfig
  /\ op = "detect"
  /\ last_time = now
  /\ ncalls = 1 + ROLLING_AVERAGE_WINDOW + SKIP_SAMPLES_COUNT
  /\ samples_skipped = SKIP_SAMPLES_COUNT + 1
  /\ reference_velocity = Value(trending_velocity)
  /\ reference_velocity # Zero3
  /\ VecScale(last_position, TimeScale \div SamplePeriod) # reference_velocity
  /\ ret = "False"

\* cos(r, t) < 0.95 for vectors of non-zero magnitude: with c the cosine,
\* sign(c) * c^2 < 0.95^2; a zero vector has no direction and no cosine
CosineBelowTolerance(r, t) ==
  LET d    == Dot(r, t)
      sign == IF d < 0 THEN -1 ELSE 1
  IN  /\ r # Zero3
      /\ t # Zero3
      /\ sign * d * d * ToleranceDen * ToleranceDen
           < ToleranceNum * ToleranceNum * Dot(r, r) * Dot(t, t)

Abs(n) == IF n < 0 THEN -n ELSE n

\* the shortest integer vector with the direction of v
Direction(v) ==
  IF v = Zero3 THEN v
  ELSE LET g == Gcd(Gcd(Abs(v[1]), Abs(v[2])), Abs(v[3]))
       IN  <<v[1] \div g, v[2] \div g, v[3] \div g>>

\* the detector with its reference velocity and its window replaced by
\* vectors of the same directions
Directions(s) ==
  [s EXCEPT !.reference_velocity = Direction(@),
            !.trending_velocity.que = <<Direction(SumVec(@))>>]

\* C16: a detect() call on an accepted sample with the reference velocity
\* already set returns true exactly when the cosine similarity of the
\* reference velocity and the mean of the window is strictly below 0.95
\* (false where a zero magnitude leaves no similarity), and the comparison
\* gives the same result on any two vectors of the same two directions.
C16_DecisionRule ==
  Compared =>
    /\ ret = "True" <=> CosineBelowTolerance(reference_velocity,
                                             Value(trending_velocity))
    /\ compare(Directions(Self)).ret = ret

\* a compared sample whose window mean is off the direction of the
\* reference velocity, with a similarity still at or above the tolerance
C16_Witness ==
  /\ config = DefaultConfig
  /\ Compared
  /\ Cross(reference_velocity, Value(trending_velocity)) # Zero3
  /\ Dot(reference_velocity, reference_velocity) # Dot(Value(trending_velocity), Value(trending_velocity))
  /\ ret = "False"

\* C17: in every reachable state a non-empty window implies a recorded last
\* position and time; a skip counter above 0 implies a full window; the
\* skip counter is at most S + 1; the reference velocity is set exactly
\* when the skip counter is S + 1; and detect() has returned true only in
\* a state with the reference velocity set and the window full.
C17_PhaseConsistency ==
  /\ Len(trending_velocity.que) > 0 => (last_position # None /\ last_time # NoTime)
  /\ samples_skipped > 0 => Valid(trending_velocity)
  /\ samples_skipped <= config.skip + 1
  /\ reference_velocity # None <=> samples_skipped = config.skip + 1
  /\ (op = "detect" /\ ret = "True")
       => (reference_velocity # None /\ Valid(trending_velocity))

\* detect() has just returned true on an accepted sample, the skip counter
\* at S + 1
C17_Witness ==
  /\ op = "detect"
  /\ ret = "True"
  /\ samples_skipped = SKIP_SAMPLES_COUNT + 1
  /\ accepted # None
  /\ last_time = now

====
